---- MODULE Spec2Model ----
(***************************************************************************)
(* Model of Exiv2's slices (include/exiv2/slice.hpp): non-owning views     *)
(* over a container or a C-array, with checked element access, iteration   *)
(* and sub-slicing.                                                        *)
(*                                                                         *)
(* Positions are 0-based as in the C++ code; the element at position p of  *)
(* a store is elems[p + 1].  size_t is modelled as an unsigned integer of  *)
(* SizeBits bits and every addition / subtraction of the code wraps.       *)
(***************************************************************************)
EXTENDS Integers, Sequences

\* ---- bounds of the model ------------------------------------------------
MaxLen == 3
SizeBits == 3

SizeMax == 2^SizeBits - 1
MaxIdx == MaxLen + 1

\* the element type is a template parameter: two distinguishable elements
Values == {"a", "b"}
\* arguments handed to the API: the small ones and the largest size_t
Inputs == (0..MaxIdx) \cup {SizeMax}

\* size_t arithmetic
Add(a, b) == (a + b) % (SizeMax + 1)
Sub(a, b) == (a - b + SizeMax + 1) % (SizeMax + 1)

\* sequences over S of length 0..n
SeqsUpTo(S, n) == UNION {[1..k -> S] : k \in 0..n}

\* ---- the view objects ---------------------------------------------------
\* begin_/end_ are the fields of SliceBase.  NoView stands for "no object":
\* no constructed view has begin_ = end_.
NoView == [begin_ |-> 0, end_ |-> 0]

Ok(b, e) == [status |-> "ok", begin |-> b, end |-> e]
Throw(kind) == [status |-> kind, begin |-> 0, end |-> 0]

\* defective variant: a zero-length range is let through
SliceBase_AllowEmpty(begin, end) ==
    IF begin > end THEN Throw("InvalidRange") ELSE Ok(begin, end)

\* SliceBase::SliceBase
SliceBase(begin, end) ==
    IF begin >= end THEN Throw("InvalidRange") ELSE Ok(begin, end)

\* SliceBase::size
size(v) == Sub(v.end_, v.begin_)

\* defective variant: the index one past the last element is let through
rangeCheck_OffByOne(v, index) == ~(index > size(v))

\* defective variant: the index is compared with end_ instead of size()
rangeCheck_AgainstEnd(v, index) == ~(index >= v.end_)

\* SliceBase::rangeCheck: TRUE when it returns, FALSE when it throws
rangeCheck(v, index) == ~(index >= size(v))

\* defective variant: the relative bounds are returned without adding begin_
calculateSubSliceBounds_Relative(v, begin, end) ==
    IF (begin >= size(v)) \/ (end > size(v))
    THEN Throw("InvalidRange")
    ELSE IF end > v.end_ THEN Throw("InvalidRange") ELSE Ok(begin, end)

\* defective variant: end == size() is rejected
calculateSubSliceBounds_EndExclusive(v, begin, end) ==
    IF (begin >= size(v)) \/ (end >= size(v))
    THEN Throw("InvalidRange")
    ELSE LET b == Add(begin, v.begin_)
             e == Add(end, v.begin_)
         IN  IF e > v.end_ THEN Throw("InvalidRange") ELSE Ok(b, e)

\* SliceBase::calculateSubSliceBounds
calculateSubSliceBounds(v, begin, end) ==
    IF (begin >= size(v)) \/ (end > size(v))
    THEN Throw("InvalidRange")
    ELSE LET b == Add(begin, v.begin_)
             e == Add(end, v.begin_)
         IN  IF e > v.end_ THEN Throw("InvalidRange") ELSE Ok(b, e)

\* defective variant: end == cont.size() is rejected
SliceContainer_EndExclusive(st, begin, end) ==
    LET base == SliceBase(begin, end)
    IN  IF base.status # "ok" THEN base
        ELSE IF end >= Len(st.elems) THEN Throw("InvalidRange")
        ELSE base

\* Slice<container>::Slice
SliceContainer(st, begin, end) ==
    LET base == SliceBase(begin, end)
    IN  IF base.status # "ok" THEN base
        ELSE IF end > Len(st.elems) THEN Throw("InvalidRange")
        ELSE base

\* defective variant: the null check is missing
SlicePointer_NoNullCheck(st, begin, end) == SliceBase(begin, end)

\* Slice<T*>::Slice
SlicePointer(st, begin, end) ==
    LET base == SliceBase(begin, end)
    IN  IF base.status # "ok" THEN base
        ELSE IF st.null THEN Throw("NullPointer")
        ELSE base

\* makeSlice(cont, begin, end) / makeSlice(ptr, begin, end)
Slice(st, begin, end) ==
    IF st.kind = "container" THEN SliceContainer(st, begin, end)
    ELSE SlicePointer(st, begin, end)

\* defective variant: the element is taken at index instead of begin_ + index
at_NoOffset(st, v, index) ==
    IF ~rangeCheck(v, index)
    THEN [status |-> "IndexOutOfRange", pos |-> <<>>]
    ELSE [status |-> IF index < Len(st.elems) THEN "ok" ELSE "UB", pos |-> <<index>>]

\* Slice<container>::at / Slice<T*>::at: the reference it returns.  pos is
\* the store position the reference designates (empty when it throws).
\* cont_.at(p) is the container's own checked access; ptr_[p] is unchecked
\* and undefined outside the array ("UB").
at(st, v, index) ==
    IF ~rangeCheck(v, index)
    THEN [status |-> "IndexOutOfRange", pos |-> <<>>]
    ELSE LET p == Add(v.begin_, index)
         IN  IF st.kind = "container"
             THEN IF p >= Len(st.elems)
                  THEN [status |-> "ContainerOutOfRange", pos |-> <<>>]
                  ELSE [status |-> "ok", pos |-> <<p>>]
             ELSE [status |-> IF p < Len(st.elems) THEN "ok" ELSE "UB",
                   pos |-> <<p>>]

\* defective variant: the store's begin iterator is returned without advancing it
cbegin_NoAdvance(v) == 0

\* Slice::cbegin / begin: the store position of the iterator
cbegin(v) == v.begin_

\* Slice::cend / end
cend(v) == v.end_

\* the positions a walk from iterator p up to (excluding) iterator e visits
RECURSIVE walk(_, _)
walk(p, e) == IF p = e THEN <<>> ELSE <<p>> \o walk(Add(p, 1), e)

\* Slice<container>::subSlice / Slice<T*>::subSlice
subSlice(st, v, begin, end) ==
    LET r == calculateSubSliceBounds(v, begin, end)
    IN  IF r.status # "ok" THEN r ELSE Slice(st, r.begin, r.end)

\* makeSlice(cont)
makeSlice(st) == SliceContainer(st, 0, Len(st.elems))

\* defective variant: the offset is taken as the end instead of the begin
makeSliceFrom_Until(st, begin) == SliceContainer(st, 0, begin)

\* makeSliceFrom(cont, begin)
makeSliceFrom(st, begin) == SliceContainer(st, begin, Len(st.elems))

\* makeSliceUntil(cont, end) / makeSliceUntil(ptr, end)
makeSliceUntil(st, end) ==
    IF st.kind = "container" THEN SliceContainer(st, 0, end)
    ELSE SlicePointer(st, 0, end)

\* ---- state --------------------------------------------------------------
\* store: the container, or the C-array behind the pointer
\* view:  the view the caller constructed over the store (or NoView)
\* sub:   the view the caller derived from view by subSlice calls (or NoView)
\* last:  the call that has just returned or thrown, until the caller moves on
VARIABLES store, view, sub, last
vars == <<store, view, sub, last>>

Stores ==
    {[kind |-> "container", null |-> FALSE, elems |-> s] : s \in SeqsUpTo(Values, MaxLen)}
    \cup {[kind |-> "pointer", null |-> FALSE, elems |-> s] :
             s \in SeqsUpTo(Values, MaxLen) \ {<<>>}}
    \cup {[kind |-> "pointer", null |-> TRUE, elems |-> <<>>]}

\* the value a read of position p yields; garbage outside the array
Deref(st, p, garbage) == IF p < Len(st.elems) THEN st.elems[p + 1] ELSE garbage

View(r) == [begin_ |-> r.begin, end_ |-> r.end]

Idle == [op |-> "idle", recv |-> "none", view |-> NoView, a |-> 0, b |-> 0,
         x |-> "a", status |-> "ok", pos |-> <<>>, val |-> <<>>,
         made |-> NoView, before |-> <<>>, viewBefore |-> NoView,
         subBefore |-> NoView]

Record(op, recv, v, a, b, x, status, pos, val, made) ==
    [op |-> op, recv |-> recv, view |-> v, a |-> a, b |-> b, x |-> x,
     status |-> status, pos |-> pos, val |-> val, made |-> made,
     before |-> store.elems, viewBefore |-> view, subBefore |-> sub]

Receiver(recv) == IF recv = "view" THEN view ELSE sub

Init ==
    /\ store \in Stores
    /\ view = NoView
    /\ sub = NoView
    /\ last = Idle

\* a constructor or factory call: the caller keeps the view it returns
Create(op, a, b, r) ==
    /\ last = Idle
    /\ view = NoView
    /\ view' = IF r.status = "ok" THEN View(r) ELSE view
    /\ last' = Record(op, "none", NoView, a, b, "a", r.status, <<>>, <<>>,
                      IF r.status = "ok" THEN View(r) ELSE NoView)
    /\ UNCHANGED <<store, sub>>

\* Slice(cont, begin, end) / Slice(ptr, begin, end), also makeSlice(x, begin, end)
Construct(b, e) == Create("construct", b, e, Slice(store, b, e))

MakeSlice ==
    /\ store.kind = "container"
    /\ Create("makeSlice", 0, 0, makeSlice(store))

MakeSliceFrom(b) ==
    /\ store.kind = "container"
    /\ Create("makeSliceFrom", b, 0, makeSliceFrom(store, b))

MakeSliceUntil(e) == Create("makeSliceUntil", 0, e, makeSliceUntil(store, e))

\* recv.subSlice(a, b): the caller keeps the result as its derived view
SubSlice(recv, a, b) ==
    /\ last = Idle
    /\ Receiver(recv) # NoView
    /\ LET v == Receiver(recv)
           r == subSlice(store, v, a, b)
       IN  /\ sub' = IF r.status = "ok" THEN View(r) ELSE sub
           /\ last' = Record("subSlice", recv, v, a, b, "a", r.status, <<>>, <<>>,
                             IF r.status = "ok" THEN View(r) ELSE NoView)
    /\ UNCHANGED <<store, view>>

\* value = recv.at(i)
AtRead(recv, i) ==
    /\ last = Idle
    /\ Receiver(recv) # NoView
    /\ LET v == Receiver(recv)
           r == at(store, v, i)
       IN  \E garbage \in Values :
             last' = Record("read", recv, v, i, 0, "a", r.status, r.pos,
                            [k \in 1..Len(r.pos) |-> Deref(store, r.pos[k], garbage)],
                            NoView)
    /\ UNCHANGED <<store, view, sub>>

\* recv.at(i) = x.  A write outside the array lands in whatever memory
\* follows it: the array itself keeps its contents.
AtWrite(recv, i, x) ==
    /\ last = Idle
    /\ Receiver(recv) # NoView
    /\ LET v == Receiver(recv)
           r == at(store, v, i)
       IN  /\ store' = IF r.status = "ok"
                       THEN [store EXCEPT !.elems[r.pos[1] + 1] = x]
                       ELSE store
           /\ last' = Record("write", recv, v, i, 0, x, r.status, r.pos, <<>>, NoView)
    /\ UNCHANGED <<view, sub>>

\* for (elem : recv): from begin() to end(), reading every element
Iterate(recv) ==
    /\ last = Idle
    /\ Receiver(recv) # NoView
    /\ LET v == Receiver(recv)
           ps == walk(cbegin(v), cend(v))
           defined == cend(v) <= Len(store.elems)
       IN  \E garbage \in Values :
             last' = Record("iterate", recv, v, 0, 0, "a",
                            IF defined THEN "ok" ELSE "UB", ps,
                            [k \in 1..Len(ps) |-> Deref(store, ps[k], garbage)],
                            NoView)
    /\ UNCHANGED <<store, view, sub>>

\* the derived view goes out of scope
DestroySub ==
    /\ last = Idle
    /\ sub # NoView
    /\ sub' = NoView
    /\ UNCHANGED <<store, view, last>>

\* the constructed view goes out of scope, and with it the views derived from it
DestroyView ==
    /\ last = Idle
    /\ view # NoView
    /\ view' = NoView
    /\ sub' = NoView
    /\ UNCHANGED <<store, last>>

\* the caller has used the result (or caught the exception) and moves on
Return ==
    /\ last # Idle
    /\ last' = Idle
    /\ UNCHANGED <<store, view, sub>>

Next ==
    \/ \E b \in Inputs, e \in Inputs : Construct(b, e)
    \/ MakeSlice
    \/ \E b \in Inputs : MakeSliceFrom(b)
    \/ \E e \in Inputs : MakeSliceUntil(e)
    \/ \E recv \in {"view", "sub"}, a \in Inputs, b \in Inputs : SubSlice(recv, a, b)
    \/ \E recv \in {"view", "sub"}, i \in Inputs : AtRead(recv, i)
    \/ \E recv \in {"view", "sub"}, i \in Inputs, x \in Values : AtWrite(recv, i, x)
    \/ \E recv \in {"view", "sub"} : Iterate(recv)
    \/ DestroySub
    \/ DestroyView
    \/ Return

Spec == Init /\ [][Next]_vars

\* ---- properties ---------------------------------------------------------
\* the views alive in the current state
Live == {view, sub} \ {NoView}

\* the range of w lies inside the range of v
Inside(w, v) == v.begin_ <= w.begin_ /\ w.end_ <= v.end_

\* what construction over the store with bounds (b, e) has to yield
Expected(b, e) ==
    IF b >= e THEN "InvalidRange"
    ELSE IF store.kind = "container"
         THEN IF e > Len(store.elems) THEN "InvalidRange" ELSE "ok"
         ELSE IF store.null THEN "NullPointer" ELSE "ok"

\* C1: every store position read or written through the constructed view V
\* or through a view derived from it by subSlice calls lies in
\* [V.begin, V.end) and in the range of the view it goes through, and below
\* store.size() when the store is a container; every derived view stays
\* inside the view it was taken from and inside V.
C1_AccessStaysInsideView ==
    /\ sub # NoView => view # NoView /\ Inside(sub, view)
    /\ last.op \in {"read", "write", "iterate"} =>
         \A k \in 1..Len(last.pos) :
            /\ view.begin_ <= last.pos[k]
            /\ last.pos[k] < view.end_
            /\ last.view.begin_ <= last.pos[k]
            /\ last.pos[k] < last.view.end_
            /\ store.kind = "container" => last.pos[k] < Len(store.elems)
    /\ last.op = "subSlice" /\ last.status = "ok" =>
         Inside(last.made, last.view) /\ Inside(last.made, view)

C1_Witness ==
    /\ last.op = "write" /\ last.status = "ok" /\ last.recv = "sub"
    /\ sub # view
    /\ last.pos = <<view.end_ - 1>>

\* C2: constructing a container view with 0 <= begin < end <= store.size()
\* succeeds and the view has size end - begin; with end > store.size() it
\* fails with InvalidRange.
C2_ContainerConstruction ==
    last.op = "construct" /\ store.kind = "container" =>
        /\ last.a < last.b /\ last.b <= Len(store.elems) =>
             /\ last.status = "ok"
             /\ last.made = [begin_ |-> last.a, end_ |-> last.b]
             /\ view = last.made
             /\ size(view) = last.b - last.a
        /\ last.b > Len(store.elems) =>
             /\ last.status = "InvalidRange"
             /\ last.made = NoView /\ view = NoView

C2_Witness ==
    /\ last.op = "construct" /\ store.kind = "container" /\ last.status = "ok"
    /\ last.a > 0 /\ last.b = Len(store.elems)
    /\ size(view) = last.b - last.a

\* C3: construction with begin >= end fails with InvalidRange and creates no
\* view, whatever the store: container or pointer, null pointer or not, end
\* beyond the container or not.
C3_EmptyOrReversedRangeRejected ==
    last.op = "construct" /\ last.a >= last.b =>
        /\ last.status = "InvalidRange"
        /\ last.made = NoView /\ view = NoView /\ sub = NoView

C3_Witness ==
    /\ last.op = "construct" /\ last.a = last.b /\ last.a > 0
    /\ store.kind = "pointer" /\ store.null
    /\ last.status = "InvalidRange"

\* C4: for i < size(), at(i) designates the store element at begin + i and a
\* read yields its value; a write changes that element and no other, and
\* every live view covering the position then reads the written value.
C4_AtAddressesBeginPlusIndex ==
    LET v == last.view
        p == v.begin_ + last.a
        exists == p < Len(store.elems)
    IN  /\ last.op \in {"read", "write"} /\ last.a < size(v) =>
             /\ last.pos = <<p>>
             /\ store.kind = "container" => exists
             /\ exists => last.status = "ok"
        /\ last.op = "read" /\ last.a < size(v) /\ exists =>
             last.val = <<store.elems[p + 1]>>
        /\ last.op = "write" /\ last.a < size(v) =>
             /\ Len(store.elems) = Len(last.before)
             /\ \A q \in 1..Len(store.elems) :
                   store.elems[q] = IF q = p + 1 THEN last.x ELSE last.before[q]
             /\ \A w \in Live, j \in 0..SizeMax :
                   j < size(w) /\ w.begin_ + j = p /\ exists =>
                      /\ at(store, w, j) = [status |-> "ok", pos |-> <<p>>]
                      /\ \A g \in Values : Deref(store, at(store, w, j).pos[1], g) = last.x

C4_Witness ==
    /\ last.op = "write" /\ last.status = "ok" /\ last.recv = "view"
    /\ view.begin_ > 0 /\ last.a > 0
    /\ sub # NoView /\ sub # view
    /\ sub.begin_ <= last.pos[1] /\ last.pos[1] < sub.end_
    /\ last.before[last.pos[1] + 1] # last.x

\* C5: at(i) with i >= size() fails with IndexOutOfRange without touching
\* the store, and leaves the store and every view as they were.
C5_IndexOutOfRange ==
    last.op \in {"read", "write"} /\ last.a >= size(last.view) =>
        /\ last.status = "IndexOutOfRange"
        /\ last.pos = <<>> /\ last.val = <<>>
        /\ store.elems = last.before
        /\ view = last.viewBefore /\ sub = last.subBefore

C5_Witness ==
    /\ last.op = "write" /\ last.status = "IndexOutOfRange"
    /\ last.a = size(last.view)
    /\ last.view.begin_ > 0
    /\ last.a < last.view.end_
    /\ last.view.begin_ + last.a < Len(store.elems)

\* C6: a successful subSlice(a, b) yields a view of the same store with range
\* [begin + a, begin + b) and size b - a whose at(k) designates the element
\* that at(a + k) of the original designates, also for sub-slices of
\* sub-slices.
C6_SubSliceAbsoluteRange ==
    LET v == last.view
        w == last.made
    IN  last.op = "subSlice" /\ last.status = "ok" =>
            /\ w.begin_ = v.begin_ + last.a
            /\ w.end_ = v.begin_ + last.b
            /\ size(w) = last.b - last.a
            /\ sub = w
            /\ store.elems = last.before
            /\ \A k \in 0..(last.b - last.a - 1) :
                  /\ at(store, w, k) = at(store, v, last.a + k)
                  /\ at(store, w, k).pos = <<v.begin_ + last.a + k>>

C6_Witness ==
    /\ last.op = "subSlice" /\ last.status = "ok" /\ last.recv = "sub"
    /\ last.view.begin_ > 0 /\ last.view # view
    /\ last.a > 0
    /\ at(store, last.made, 0).status = "ok"

\* C7: subSlice(a, b) with a < b = size() succeeds; it fails with
\* InvalidRange when b = 0, a >= size(), b > size() or a >= b, and then
\* creates no view and changes neither the store nor the views.
C7_SubSliceBounds ==
    LET v == last.view
    IN  last.op = "subSlice" =>
            /\ last.a < last.b /\ last.b = size(v) => last.status = "ok"
            /\ (last.b = 0 \/ last.a >= size(v) \/ last.b > size(v) \/ last.a >= last.b) =>
                  last.status = "InvalidRange"
            /\ last.status # "ok" =>
                  /\ last.made = NoView
                  /\ store.elems = last.before
                  /\ view = last.viewBefore /\ sub = last.subBefore

C7_Witness ==
    /\ last.op = "subSlice" /\ last.status = "ok"
    /\ last.a > 0 /\ last.b = size(last.view)
    /\ last.view.begin_ > 0

C9_PointerConstruction ==
    last.op = "construct" /\ store.kind = "pointer" /\ last.a < last.b =>
        /\ last.status = "NullPointer" <=> store.null
        /\ ~store.null =>
             /\ last.status = "ok"
             /\ last.made = [begin_ |-> last.a, end_ |-> last.b]
             /\ view = last.made
        /\ store.null => last.made = NoView /\ view = NoView

C9_Witness ==
    /\ last.op = "construct" /\ store.kind = "pointer" /\ ~store.null
    /\ last.status = "ok"
    /\ last.b > Len(store.elems)
    /\ view.end_ = last.b

\* C10: makeSlice(cont) is the view [0, size()), makeSliceFrom(cont, b) the
\* view [b, size()), makeSliceUntil(x, e) the view [0, e); each succeeds or
\* fails as direct construction with those bounds does.
AsConstructed(b, e) ==
    /\ last.status = Expected(b, e)
    /\ last.status = Slice(store, b, e).status
    /\ last.made = IF Expected(b, e) = "ok" THEN [begin_ |-> b, end_ |-> e] ELSE NoView
    /\ view = last.made

C10_Factories ==
    /\ last.op = "makeSlice" => AsConstructed(0, Len(store.elems))
    /\ last.op = "makeSliceFrom" => AsConstructed(last.a, Len(store.elems))
    /\ last.op = "makeSliceUntil" => AsConstructed(0, last.b)

C10_Witness ==
    /\ last.op = "makeSliceFrom" /\ last.status = "ok"
    /\ last.a > 0
    /\ view = [begin_ |-> last.a, end_ |-> Len(store.elems)]

====
